---- MODULE Spec2Model ----
(***************************************************************************)
(* Model of app/main.py: the ASGI application `app = FastAPI()` with three *)
(* GET endpoints (root, health, status), served to concurrent clients.     *)
(*                                                                         *)
(* A path is a sequence of tokens, "/" being a token of its own:           *)
(*   "/"           is <<"/">>                                              *)
(*   "/health"     is <<"/", "health">>                                    *)
(*   "/api/status" is <<"/", "api", "/", "status">>                        *)
(*   "/health/"    is <<"/", "health", "/">>                               *)
(***************************************************************************)
EXTENDS Naturals, Sequences, FiniteSets, TLC

\* Number of client connections the serving runtime handles at once.
NumClients == 2

Clients == 1..NumClients

VARIABLES
    routes,          \* app.router.routes
    openapi_schema,  \* app.openapi_schema
    pc,              \* per client: "idle", "received", "in_threadpool", "responded"
    req,             \* per client: the request being served
    target,          \* per client: the endpoint handed to the thread pool
    resp,            \* per client: the response sent
    nresp            \* per client: responses sent for the current request

vars == <<routes, openapi_schema, pc, req, target, resp, nresp>>

app == <<routes, openapi_schema>>

-----------------------------------------------------------------------------
(* Requests                                                                *)

PathRoot == <<"/">>
PathHealth == <<"/", "health">>
PathApiStatus == <<"/", "api", "/", "status">>
PathOpenapi == <<"/", "openapi.json">>
PathDocs == <<"/", "docs">>
PathDocsOauth2 == <<"/", "docs", "/", "oauth2-redirect">>
PathRedoc == <<"/", "redoc">>
PathHealthSlash == <<"/", "health", "/">>
PathUnknown == <<"/", "unknown">>

Methods == {"GET", "HEAD", "POST"}

Paths == {PathRoot, PathHealth, PathApiStatus, PathOpenapi, PathHealthSlash, PathUnknown}

\* What a request carries besides its method and path.
NoExtras == [query |-> "", headers |-> "", body |-> ""]

Extras == {NoExtras, [query |-> "status=down", headers |-> "X-Status: down", body |-> "{\"status\":\"down\"}"]}

Requests == {[method |-> m, path |-> p, extras |-> x] : m \in Methods, p \in Paths, x \in Extras}

NoRequest == [method |-> "", path |-> <<>>, extras |-> NoExtras]

-----------------------------------------------------------------------------
(* The endpoints of app/main.py: each returns a dict literal, written here *)
(* as the sequence of its <<key, value>> items.                            *)

\* root with its message changed.
rootGreeting == << <<"message", "Hello from Docker!">> >>

root == << <<"message", "Hello from Kubernetes!">> >>

\* health returning the payload of status.
healthAsStatus == << <<"status", "ok">> >>

health == << <<"status", "healthy">> >>

\* status returning the payload of health.
statusAsHealth == << <<"status", "healthy">> >>

status == << <<"status", "ok">> >>

\* Endpoints that report whether the application has cached its schema: a
\* handler reading shared mutable state.
CallEndpointStateful(endpoint, request) ==
    CASE endpoint = "root" -> << <<"message", "Hello from Kubernetes!">> >>
      [] endpoint = "health" -> << <<"status", "healthy">> >>
      [] endpoint = "status" -> << <<"status", IF openapi_schema = "None" THEN "ok" ELSE "documented">> >>

\* Endpoints that take the status to report from the query string: a
\* handler reading the request.
CallEndpointFromQuery(endpoint, request) ==
    CASE endpoint = "root" -> << <<"message", "Hello from Kubernetes!">> >>
      [] endpoint = "health" -> << <<"status", IF request.extras.query = "" THEN "healthy" ELSE request.extras.query>> >>
      [] endpoint = "status" -> << <<"status", "ok">> >>

\* The endpoint functions by name; none of them declares a parameter, so
\* the framework calls each with no argument taken from the request.
CallEndpoint(endpoint, request) ==
    CASE endpoint = "root" -> root
      [] endpoint = "health" -> health
      [] endpoint = "status" -> status

\* JSONResponse.render of a dict of strings: json.dumps with separators (",", ":").
RECURSIVE RenderItems(_)
RenderItems(items) ==
    IF items = <<>> THEN ""
    ELSE "\"" \o Head(items)[1] \o "\":\"" \o Head(items)[2] \o "\""
         \o (IF Tail(items) = <<>> THEN "" ELSE "," \o RenderItems(Tail(items)))

JSONRender(items) == "{" \o RenderItems(items) \o "}"

Response(code, content) == [status |-> code, body |-> content]

NoResponse == Response(0, "")

-----------------------------------------------------------------------------
(* The route table built by FastAPI() and the three @app.get decorators.   *)

\* @app.get(path): an APIRoute answering GET only.
ApiRoute(path, endpoint) == [path |-> path, methods |-> {"GET"}, endpoint |-> endpoint]

\* FastAPI().setup(): documentation routes added with add_route, which
\* answer GET and HEAD.
DocsRoute(path, endpoint) == [path |-> path, methods |-> {"GET", "HEAD"}, endpoint |-> endpoint]

AppRoutes ==
    << DocsRoute(PathOpenapi, "openapi"),
       DocsRoute(PathDocs, "swagger_ui_html"),
       DocsRoute(PathDocsOauth2, "swagger_ui_redirect"),
       DocsRoute(PathRedoc, "redoc_html"),
       ApiRoute(PathRoot, "root"),
       ApiRoute(PathHealth, "health"),
       ApiRoute(PathApiStatus, "status") >>

SyncEndpoints == {"root", "health", "status"}

-----------------------------------------------------------------------------
(* Routing, as the framework's router does it for the table above.         *)

\* A match that does not look at the method.
MatchesAnyMethod(route, method, path) ==
    IF route.path # path THEN "NONE" ELSE "FULL"

\* Route.matches: the path pattern of a parameterless route matches the
\* whole path only; a wrong method makes the match partial.
Matches(route, method, path) ==
    IF route.path # path THEN "NONE"
    ELSE IF method \in route.methods THEN "FULL"
    ELSE "PARTIAL"

\* str.rstrip("/") on a path.
RECURSIVE rstrip(_)
rstrip(path) ==
    IF path # <<>> /\ path[Len(path)] = "/" THEN rstrip(SubSeq(path, 1, Len(path) - 1))
    ELSE path

\* The path the router tries again when no route matched: without the
\* trailing slashes, or with one added.
RedirectPath(path) ==
    IF path[Len(path)] = "/" THEN rstrip(path) ELSE Append(path, "/")

\* The first route of the table matching with `kind`, 0 when none does.
FirstMatch(table, method, path, kind) ==
    LET hits == {i \in 1..Len(table) : Matches(table[i], method, path) = kind}
    IN  IF hits = {} THEN 0 ELSE CHOOSE i \in hits : \A j \in hits : i <= j

\* A router that answers a partial match like no match at all.
RouterWithout405(table, request) ==
    LET hits == {i \in 1..Len(table) :
                    table[i].path = request.path /\ request.method \in table[i].methods}
    IN  IF hits # {} THEN table[CHOOSE i \in hits : \A j \in hits : i <= j].endpoint
        ELSE IF /\ request.path # <<"/">>
                /\ \E i \in 1..Len(table) :
                       table[i].path = (IF request.path[Len(request.path)] = "/"
                                        THEN SubSeq(request.path, 1, Len(request.path) - 1)
                                        ELSE Append(request.path, "/"))
             THEN "redirect_slashes"
        ELSE "not_found"

\* Router: the endpoint of the first full match; else 405 from the first
\* partial match; else a redirect when the path with its trailing slash
\* toggled matches some route; else the default 404.
Router(table, request) ==
    LET full == FirstMatch(table, request.method, request.path, "FULL")
        partial == FirstMatch(table, request.method, request.path, "PARTIAL")
    IN  IF full # 0 THEN table[full].endpoint
        ELSE IF partial # 0 THEN "method_not_allowed"
        ELSE IF /\ request.path # PathRoot
                /\ \E i \in 1..Len(table) :
                       Matches(table[i], request.method, RedirectPath(request.path)) # "NONE"
             THEN "redirect_slashes"
        ELSE "not_found"

\* The schema FastAPI.openapi() generates for the application (its text is
\* not modelled).
GeneratedSchema == "<openapi schema>"

\* FastAPI.openapi(): the schema cached on the application, generated on
\* the first call.
Openapi(cached) == IF cached = "None" THEN GeneratedSchema ELSE cached

\* What the event loop answers without leaving it: the framework's own
\* responses and the documentation endpoints (coroutines with no await).
InlineResponse(t, cached) ==
    CASE t = "method_not_allowed" -> Response(405, "{\"detail\":\"Method Not Allowed\"}")
      [] t = "not_found" -> Response(404, "{\"detail\":\"Not Found\"}")
      [] t = "redirect_slashes" -> Response(307, "")
      [] t = "openapi" -> Response(200, Openapi(cached))
      [] t = "swagger_ui_html" -> Response(200, "<swagger ui html>")
      [] t = "swagger_ui_redirect" -> Response(200, "<swagger ui oauth2 redirect html>")
      [] t = "redoc_html" -> Response(200, "<redoc html>")

\* The response to a call of one of the three endpoints: status 200 and the
\* returned dict rendered as JSON.
EndpointResponse(endpoint, request) ==
    Response(200, JSONRender(CallEndpoint(endpoint, request)))

-----------------------------------------------------------------------------
(* The running service.                                                    *)

\* The state after `import app.main`: the table is built, nothing is cached.
Init ==
    /\ routes = AppRoutes
    /\ openapi_schema = "None"
    /\ pc = [c \in Clients |-> "idle"]
    /\ req = [c \in Clients |-> NoRequest]
    /\ target = [c \in Clients |-> ""]
    /\ resp = [c \in Clients |-> NoResponse]
    /\ nresp = [c \in Clients |-> 0]

\* The server hands a request of client c to the application.
Receive(c, r) ==
    /\ pc[c] = "idle"
    /\ pc' = [pc EXCEPT ![c] = "received"]
    /\ req' = [req EXCEPT ![c] = r]
    /\ UNCHANGED <<routes, openapi_schema, target, resp, nresp>>

\* The event loop routes the request of client c. One of the three
\* endpoints (plain `def`) is handed to the thread pool; everything else is
\* answered at once.
Dispatch(c) ==
    /\ pc[c] = "received"
    /\ LET t == Router(routes, req[c])
       IN  IF t \in SyncEndpoints
           THEN /\ pc' = [pc EXCEPT ![c] = "in_threadpool"]
                /\ target' = [target EXCEPT ![c] = t]
                /\ UNCHANGED <<openapi_schema, resp, nresp>>
           ELSE /\ pc' = [pc EXCEPT ![c] = "responded"]
                /\ resp' = [resp EXCEPT ![c] = InlineResponse(t, openapi_schema)]
                /\ nresp' = [nresp EXCEPT ![c] = nresp[c] + 1]
                /\ openapi_schema' = IF t = "openapi" THEN Openapi(openapi_schema)
                                     ELSE openapi_schema
                /\ UNCHANGED target
    /\ UNCHANGED <<routes, req>>

\* A pool thread running whatever endpoint was submitted last, by any
\* client: the submitted endpoint kept in one shared slot.
RunEndpointSharedSlot(c) ==
    /\ pc[c] = "in_threadpool"
    /\ \E d \in Clients :
          /\ pc[d] = "in_threadpool"
          /\ resp' = [resp EXCEPT ![c] = Response(200, JSONRender(CallEndpoint(target[d], req[c])))]
    /\ pc' = [pc EXCEPT ![c] = "responded"]
    /\ nresp' = [nresp EXCEPT ![c] = nresp[c] + 1]
    /\ UNCHANGED <<routes, openapi_schema, req, target>>

\* An endpoint call that registers its route again.
RunEndpointRegistering(c) ==
    /\ pc[c] = "in_threadpool"
    /\ pc' = [pc EXCEPT ![c] = "responded"]
    /\ resp' = [resp EXCEPT ![c] = Response(200, JSONRender(CallEndpoint(target[c], req[c])))]
    /\ nresp' = [nresp EXCEPT ![c] = nresp[c] + 1]
    /\ routes' = Append(routes, [path |-> req[c].path, methods |-> {"GET"}, endpoint |-> target[c]])
    /\ UNCHANGED <<openapi_schema, req, target>>

\* An endpoint call that is retried once after its response was sent.
RunEndpointRetried(c) ==
    /\ pc[c] = "in_threadpool"
    /\ pc' = [pc EXCEPT ![c] = IF nresp[c] = 0 THEN "in_threadpool" ELSE "responded"]
    /\ resp' = [resp EXCEPT ![c] = Response(200, JSONRender(CallEndpoint(target[c], req[c])))]
    /\ nresp' = [nresp EXCEPT ![c] = nresp[c] + 1]
    /\ UNCHANGED <<routes, openapi_schema, req, target>>

\* A pool thread runs the endpoint of client c and the response is sent.
RunEndpoint(c) ==
    /\ pc[c] = "in_threadpool"
    /\ pc' = [pc EXCEPT ![c] = "responded"]
    /\ resp' = [resp EXCEPT ![c] = EndpointResponse(target[c], req[c])]
    /\ nresp' = [nresp EXCEPT ![c] = nresp[c] + 1]
    /\ UNCHANGED <<routes, openapi_schema, req, target>>

\* The exchange of client c is over; the connection is free again.
Complete(c) ==
    /\ pc[c] = "responded"
    /\ pc' = [pc EXCEPT ![c] = "idle"]
    /\ req' = [req EXCEPT ![c] = NoRequest]
    /\ target' = [target EXCEPT ![c] = ""]
    /\ resp' = [resp EXCEPT ![c] = NoResponse]
    /\ nresp' = [nresp EXCEPT ![c] = 0]
    /\ UNCHANGED <<routes, openapi_schema>>

\* The steps of the service when the requests sent are those of `sent`.
Serve(sent) ==
    \/ \E c \in Clients, r \in sent : Receive(c, r)
    \/ \E c \in Clients : Dispatch(c)
    \/ \E c \in Clients : RunEndpoint(c)
    \/ \E c \in Clients : Complete(c)

Next == Serve(Requests)

Spec == Init /\ [][Next]_vars

\* Requests that carry nothing besides method and path, one at least for
\* each way the router answers: GET on every path, and POST /health.
BareRequests ==
    {r \in Requests : /\ r.extras = NoExtras
                      /\ r.method = "GET" \/ (r.method = "POST" /\ r.path = PathHealth)}

\* The service under bare requests, with the event loop and the pool
\* threads kept running: a received request is dispatched and a submitted
\* endpoint is run.
FairSpec ==
    /\ Init
    /\ [][Serve(BareRequests)]_vars
    /\ \A c \in Clients : WF_vars(Dispatch(c)) /\ WF_vars(RunEndpoint(c))

-----------------------------------------------------------------------------
(* Properties                                                              *)

Responded(c) == pc[c] = "responded"

ThreePaths == {PathRoot, PathHealth, PathApiStatus}

DocsPaths == {PathOpenapi, PathDocs, PathDocsOauth2, PathRedoc}

IsGetOfThree(r) == r.method = "GET" /\ r.path \in ThreePaths

\* The response to request r handled alone by a freshly started application.
Alone(r) ==
    LET t == Router(AppRoutes, r)
    IN  IF t \in SyncEndpoints THEN EndpointResponse(t, r) ELSE InlineResponse(t, "None")

\* C1: every GET /health, whatever was served before, is answered with
\* status 200 and the JSON body {"status": "healthy"}.
C1_HealthOk ==
    \A c \in Clients :
        Responded(c) /\ req[c].method = "GET" /\ req[c].path = PathHealth
            => resp[c] = [status |-> 200, body |-> "{\"status\":\"healthy\"}"]

\* A GET /health answered after the application has served another request.
C1_Witness ==
    \E c \in Clients :
        /\ Responded(c) /\ req[c].method = "GET" /\ req[c].path = PathHealth
        /\ openapi_schema # "None"

\* C2: every GET / is answered with status 200 and the JSON body
\* {"message": "Hello from Kubernetes!"}.
C2_RootOk ==
    \A c \in Clients :
        Responded(c) /\ req[c].method = "GET" /\ req[c].path = PathRoot
            => resp[c] = [status |-> 200, body |-> "{\"message\":\"Hello from Kubernetes!\"}"]

\* A GET / answered while another client's request is in flight.
C2_Witness ==
    \E c, d \in Clients :
        /\ Responded(c) /\ req[c].method = "GET" /\ req[c].path = PathRoot
        /\ d # c /\ pc[d] = "in_threadpool"

\* C3: every GET /api/status is answered with status 200 and the JSON body
\* {"status": "ok"}.
C3_StatusOk ==
    \A c \in Clients :
        Responded(c) /\ req[c].method = "GET" /\ req[c].path = PathApiStatus
            => resp[c] = [status |-> 200, body |-> "{\"status\":\"ok\"}"]

\* A GET /api/status carrying a query, headers and a body, answered.
C3_Witness ==
    \E c \in Clients :
        /\ Responded(c) /\ req[c].method = "GET" /\ req[c].path = PathApiStatus
        /\ req[c].extras # NoExtras

\* C4 as stated: every request other than GET on "/", "/health" and
\* "/api/status" is answered with 404 or 405.
C4_Only3RoutesAnswer200 ==
    \A c \in Clients :
        Responded(c) /\ ~IsGetOfThree(req[c]) => resp[c].status \in {404, 405}

\* C4 amended: a request is answered with 200 exactly when it is GET on one
\* of the three paths or GET or HEAD on a documentation route of FastAPI();
\* every other request is answered with 307, 404 or 405, and any other
\* method on the three paths with 405.
C4_StatusOkRoutes ==
    \A c \in Clients :
        Responded(c) =>
            /\ resp[c].status = 200
                   <=> \/ IsGetOfThree(req[c])
                       \/ req[c].method \in {"GET", "HEAD"} /\ req[c].path \in DocsPaths
            /\ resp[c].status \in {200, 307, 404, 405}
            /\ req[c].path \in ThreePaths /\ req[c].method # "GET" => resp[c].status = 405

\* POST /health answered with 405 and HEAD /openapi.json with 200.
C4_Witness ==
    \E c, d \in Clients :
        /\ Responded(c) /\ req[c].method = "POST" /\ req[c].path = PathHealth
        /\ resp[c].status = 405
        /\ Responded(d) /\ req[d].method = "HEAD" /\ req[d].path = PathOpenapi
        /\ resp[d].status = 200

\* C5 as stated: every request other than GET on "/", "/health" and
\* "/api/status" is answered with 404.
C5_UnmatchedIs404 ==
    \A c \in Clients :
        Responded(c) /\ ~IsGetOfThree(req[c]) => resp[c].status = 404

\* C5 amended: a request whose path is the path of no route, also with its
\* trailing slash added or removed, is answered with 404 "Not Found"; a
\* request with another method on the path of a route is answered with 405
\* "Method Not Allowed".
C5_NotFoundOrNotAllowed ==
    \A c \in Clients :
        Responded(c) =>
            LET paths == {routes[i].path : i \in 1..Len(routes)}
                allowed == UNION {routes[i].methods : i \in {j \in 1..Len(routes) : routes[j].path = req[c].path}}
            IN  /\ req[c].path \notin paths /\ RedirectPath(req[c].path) \notin paths
                    => resp[c] = [status |-> 404, body |-> "{\"detail\":\"Not Found\"}"]
                /\ req[c].path \in paths /\ req[c].method \notin allowed
                    => resp[c] = [status |-> 405, body |-> "{\"detail\":\"Method Not Allowed\"}"]

\* GET /unknown answered with 404 and POST /api/status with 405.
C5_Witness ==
    \E c, d \in Clients :
        /\ Responded(c) /\ req[c].method = "GET" /\ req[c].path = PathUnknown
        /\ resp[c].status = 404
        /\ Responded(d) /\ req[d].method = "POST" /\ req[d].path = PathApiStatus
        /\ resp[d].status = 405

\* C6: two identical requests, served at any two points of a run, get the
\* same status and the same body.
C6_Deterministic ==
    \A c, d \in Clients :
        Responded(c) /\ Responded(d) /\ req[c] = req[d]
            => resp[c].status = resp[d].status /\ resp[c].body = resp[d].body

\* Two answers to the same GET /api/status, the application having cached
\* its schema for a request in between.
C6_Witness ==
    \E c, d \in Clients :
        /\ c # d /\ Responded(c) /\ Responded(d)
        /\ req[c] = req[d] /\ req[c].method = "GET" /\ req[c].path = PathApiStatus
        /\ openapi_schema # "None"

\* C7: two requests with the same method and path that differ in query,
\* headers or body get the same status and the same body.
C7_MethodAndPathOnly ==
    \A c, d \in Clients :
        /\ Responded(c) /\ Responded(d)
        /\ req[c].method = req[d].method /\ req[c].path = req[d].path
        /\ req[c].extras # req[d].extras
        => resp[c] = resp[d]

\* GET /health answered twice, once bare and once with a query, headers
\* and a body.
C7_Witness ==
    \E c, d \in Clients :
        /\ Responded(c) /\ Responded(d)
        /\ req[c].method = "GET" /\ req[d].method = "GET"
        /\ req[c].path = PathHealth /\ req[d].path = PathHealth
        /\ req[c].extras = NoExtras /\ req[d].extras # NoExtras

\* C8: however the steps of concurrent requests interleave, each request
\* gets the response it gets when handled alone.
C8_Isolated ==
    \A c \in Clients : Responded(c) => resp[c] = Alone(req[c])

\* A request answered while another request, for another endpoint, was
\* waiting in the thread pool.
C8_Witness ==
    \E c, d \in Clients :
        /\ c # d /\ Responded(c) /\ pc[d] = "in_threadpool"
        /\ target[c] \in SyncEndpoints /\ target[c] # target[d]

C10_OneResponse ==
    /\ \A c \in Clients : pc[c] = "received" ~> (Responded(c) /\ nresp[c] = 1)
    /\ [](\A c \in Clients : nresp[c] <= 1)

\* A response sent by a pool thread while another request is in flight.
C10_Witness ==
    \E c, d \in Clients :
        /\ c # d /\ Responded(c) /\ nresp[c] = 1 /\ target[c] \in SyncEndpoints
        /\ pc[d] \in {"received", "in_threadpool"}

====
